---------------------------- MODULE Spec2Model ----------------------------
(***************************************************************************)
(* Model of the review dashboard front end.                                *)
(*                                                                         *)
(*   - useReviewDetail / ReviewDetailPage (frontend/README-SETUP.md, the   *)
(*     review detail page): fetches one review from the backend, merges    *)
(*     the linked records with the results payload embedded in the code    *)
(*     submission, and renders sections by status.                         *)
(*   - HistoryPage (frontend/app/dashboard/history/page.tsx): fetches the  *)
(*     review list and filters / sorts it on every render.                 *)
(*   - DashboardLayout, LoginPage and the landing page (frontend/app):     *)
(*     what each renders and where it redirects, by the auth state.        *)
(*   - SubmitPage (frontend/app/dashboard/submit/page.tsx): the form,      *)
(*     handleSubmit and handleGithubImport.                                *)
(*   - DashboardPage.fetchStats (history/page.tsx) and the                 *)
(*     update_completed_at trigger of the reviews table                    *)
(*     (database_analysis.md).                                             *)
(*                                                                         *)
(* JavaScript values are records tagged by their type in field t, so that  *)
(* truthiness, optional chaining and object spread are computed as the     *)
(* code computes them.                                                     *)
(***************************************************************************)
EXTENDS Integers, Sequences, FiniteSets, TLC

VARIABLES
    id,          \* useReviewDetail: the id route parameter
    effectDue,   \* useReviewDetail: the effect on [id] has not run yet for this id
    review,      \* useReviewDetail: useState review
    loading,     \* useReviewDetail: useState loading
    error,       \* useReviewDetail: useState error
    inflight,    \* useReviewDetail: the fetchReview calls that are suspended at an await
    response,    \* useReviewDetail: the response of the fetchReview call that settled last
    h_userId,    \* HistoryPage: useState userId
    h_pc,        \* HistoryPage: where its two effects stand
    history,     \* HistoryPage: useState history
    h_loading,   \* HistoryPage: useState loading
    h_data,      \* HistoryPage: the body of the last /dashboard/history response, as received
    searchQuery, \* HistoryPage: useState searchQuery
    filtered,    \* HistoryPage: the const filtered of the last render
    route,       \* the pathname the browser is at ("" before a page is opened)
    pendingNav,  \* the destination of the last router.push not yet committed
    a_user,      \* useAuth: user
    a_loading,   \* useAuth: loading
    l_mounted,   \* DashboardLayout: useState mounted
    g_mounted,   \* LoginPage: useState mounted
    d_pc,        \* DashboardPage: where its getSession effect stands
    fieldGroup,  \* useReviewDetail: the last field group resolved, with its two sources
    reviewsRow,  \* database: one row of the reviews table (NoRow before its insert)
    dbNow,       \* database: the value of NOW(), in seconds
    s_pc,        \* SubmitPage: where checkSession stands
    s_user,      \* SubmitPage: useState user
    s_code,      \* SubmitPage: useState code
    s_title,     \* SubmitPage: useState title
    s_language,  \* SubmitPage: useState language
    githubRepo,  \* SubmitPage: useState githubRepo
    githubPath,  \* SubmitPage: useState githubPath
    submissionMethod, \* SubmitPage: useState submissionMethod
    isSubmitting,     \* SubmitPage: useState isSubmitting
    uploadProgress,   \* SubmitPage: useState uploadProgress
    s_error,     \* SubmitPage: useState error
    success,     \* SubmitPage: useState success
    s_inflight,  \* SubmitPage: the handlers suspended at an await
    s_redirect,  \* SubmitPage: the setTimeout that pushes the review page
    s_event,     \* SubmitPage: the handler that ran last, with what it received
    st_pc,       \* DashboardPage: where fetchStats stands
    st_reviews,  \* DashboardPage: the rows the reviews query returned
    stats        \* DashboardPage: useState stats (averageScore in tenths)

detailVars == <<id, effectDue, review, loading, error, inflight, response>>
historyVars == <<h_userId, h_pc, history, h_loading, h_data, searchQuery, filtered>>
authVars == <<route, pendingNav, a_user, a_loading, l_mounted, g_mounted, d_pc>>

\* What the actions of one page leave alone: the state of the other pages.
dbVars == <<reviewsRow, dbNow>>
submitVars == <<s_pc, s_user, s_code, s_title, s_language, githubRepo, githubPath,
                submissionMethod, isSubmitting, uploadProgress, s_error, success,
                s_inflight, s_redirect, s_event>>

\* What the actions of one page leave alone: the state of the other pages.
statsVars == <<st_pc, st_reviews, stats>>
outsideDetail == <<historyVars, authVars, fieldGroup, dbVars, submitVars, statsVars>>
outsideHistory == <<detailVars, authVars, fieldGroup, dbVars, submitVars, statsVars>>
outsideAuth == <<detailVars, historyVars, fieldGroup, dbVars, submitVars, statsVars>>
outsideResolve == <<detailVars, historyVars, authVars, dbVars, submitVars, statsVars>>
outsideDb == <<detailVars, historyVars, authVars, fieldGroup, submitVars, statsVars>>
outsideSubmit == <<detailVars, historyVars, authVars, fieldGroup, dbVars, statsVars>>
outsideStats == <<detailVars, historyVars, authVars, fieldGroup, dbVars, submitVars>>
vars == <<id, effectDue, review, loading, error, inflight, response,
          h_userId, h_pc, history, h_loading, h_data, searchQuery, filtered,
          route, pendingNav, a_user, a_loading, l_mounted, g_mounted, d_pc,
          fieldGroup, reviewsRow, dbNow,
          s_pc, s_user, s_code, s_title, s_language, githubRepo, githubPath,
          submissionMethod, isSubmitting, uploadProgress, s_error, success,
          s_inflight, s_redirect, s_event,
          st_pc, st_reviews, stats>>

(***************************************************************************)
(* Bounds of the model.                                                    *)
(***************************************************************************)
\* fetchReview calls that may be suspended at the same time
MaxInflight == 2
\* rows in one /dashboard/history response
MaxRows == 3
\* seconds the database clock runs
MaxNow == 3
\* rows the reviews query of the dashboard returns
MaxReviews == 3

(***************************************************************************)
(* JavaScript values.                                                      *)
(***************************************************************************)
JNull == [t |-> "null"]
JUndef == [t |-> "undefined"]
JStr(s) == [t |-> "string", s |-> s]
JNum(n) == [t |-> "number", n |-> n]
JArr(items) == [t |-> "array", items |-> items]
JBool(b) == [t |-> "boolean", b |-> b]

\* ToBoolean: null, undefined, "", 0 and false are falsy; objects and arrays
\* (the empty array included) are truthy.
Truthy(v) ==
    CASE v.t = "null" -> FALSE
      [] v.t = "undefined" -> FALSE
      [] v.t = "string" -> v.s # ""
      [] v.t = "number" -> v.n # 0
      [] v.t = "boolean" -> v.b
      [] OTHER -> TRUE

\* a || b
Or(a, b) == IF Truthy(a) THEN a ELSE b

\* v.k on a value that is not null or undefined
Get(v, k) == IF v.t = "object" /\ k \in DOMAIN v THEN v[k] ELSE JUndef

\* v?.k
OptGet(v, k) == IF v.t \in {"null", "undefined"} THEN JUndef ELSE Get(v, k)

\* The reviews row before its insert.
NoRow == [status |-> "", created_at |-> JNull, completed_at |-> JNull]

\* useState stats of the dashboard, before fetchStats.
NoStats ==
    [totalReviews |-> 0, pendingReviews |-> 0, completedReviews |-> 0,
     averageScore |-> 0, improvementRate |-> 0]

\* No handler of the submit page has run yet.
NoEvent == [kind |-> "none", sent |-> FALSE, resp |-> "none"]

\* No field group has been resolved yet.
NoFieldGroup ==
    [group |-> "", primary |-> JUndef, fallback |-> JUndef, resolved |-> JUndef]


(***************************************************************************)
(* The records the backend joins into one review (README-SETUP.md, the     *)
(* Review and DetailedReview interfaces; database_analysis.md, the five    *)
(* tables).                                                                *)
(***************************************************************************)
CallerUserId == "U1"
OtherUserId == "U2"

\* Route ids: none, two reviews of the caller, a review of another user and
\* an id no review has.
OwnedIds == {"R1", "R4"}
ForeignIds == {"R2"}
MissingIds == {"R3"}
ReviewIds == OwnedIds \cup ForeignIds \cup MissingIds
RouteIds == {""} \cup ReviewIds

Owner(rid) == IF rid \in OwnedIds THEN CallerUserId ELSE OtherUserId

Statuses == {"pending", "in_progress", "completed", "failed"}

LinkedAnalysis == [t |-> "object", summary |-> "linked"]
PayloadAnalysis == [t |-> "object", summary |-> "ok"]
LinkedMetrics == [t |-> "object", complexity |-> 5]
PayloadMetrics == [t |-> "object", complexity |-> 9]
LinkedIssue == [t |-> "object", severity |-> "high", title |-> "linked"]
PayloadIssue == [t |-> "object", severity |-> "low", title |-> "payload"]

\* The results payload once decoded: an object with optional analysis,
\* metrics, issues (and, from the legacy write path, a status of its own).
Payload(a, m, i, st) ==
    [t |-> "object", analysis |-> a, metrics |-> m, issues |-> i, status |-> st]

PayloadAll ==
    Payload(PayloadAnalysis, PayloadMetrics, JArr(<<PayloadIssue>>), JStr("failed"))

\* A payload of the legacy write path that also carries keys the reviews row
\* has: its own title, score, code and timestamps, and issues as a list.
PayloadOverReview ==
    [t |-> "object", analysis |-> PayloadAnalysis, metrics |-> JUndef,
     issues |-> JArr(<<PayloadIssue>>), status |-> JStr("failed"),
     title |-> JStr("legacy"), description |-> JStr("legacy"),
     language |-> JStr("legacy"), review_type |-> JStr("legacy"),
     score |-> JNum(3), created_at |-> JStr("2020-01-01"),
     completed_at |-> JStr("2020-01-02"), improvement_rate |-> JNum(3),
     lines_of_code |-> JNum(3), suggestions |-> JNum(3),
     github_repo |-> JStr("legacy"), github_path |-> JStr("legacy"),
     code |-> JStr("legacy")]

TextEmptyObject == "{}"
TextNull == "null"
TextAnalysisOnly == "{\"analysis\":{\"summary\":\"ok\"}}"
TextAll == "{\"status\":\"failed\",\"analysis\":{\"summary\":\"ok\"},\"metrics\":{\"complexity\":9},\"issues\":[{\"severity\":\"low\",\"title\":\"payload\"}]}"
TextGarbage == "not json"
TextTruncated == "{\"analysis\":{\"summary\":\"ok\""

\* JSON.parse on the texts above: the decoded value, or a SyntaxError.
JSONParse(text) ==
    CASE text = TextEmptyObject ->
            [ok |-> TRUE, value |-> Payload(JUndef, JUndef, JUndef, JUndef)]
      [] text = TextNull -> [ok |-> TRUE, value |-> JNull]
      [] text = TextAnalysisOnly ->
            [ok |-> TRUE, value |-> Payload(PayloadAnalysis, JUndef, JUndef, JUndef)]
      [] text = TextAll -> [ok |-> TRUE, value |-> PayloadAll]
      [] OTHER -> [ok |-> FALSE, value |-> JUndef]

UndecodableTexts == {TextGarbage, TextTruncated}
DecodableTexts == {TextEmptyObject, TextNull, TextAnalysisOnly, TextAll}

\* code_reviews.results as the backend returns it: absent, a string (JSON
\* text, possibly broken or empty) or an already structured value.
ResultsValues ==
    {JNull, JStr("")}
    \cup {JStr(x) : x \in UndecodableTexts \cup DecodableTexts}
    \cup {Payload(PayloadAnalysis, JUndef, JUndef, JUndef),
          Payload(JUndef, PayloadMetrics, JUndef, JUndef),
          Payload(JUndef, JUndef, JArr(<<PayloadIssue>>), JUndef),
          PayloadAll, PayloadOverReview}

SubmittedCode == JStr("print(1)")

CodeData(results) == [t |-> "object", code |-> SubmittedCode, results |-> results]

\* A submission row whose code is the empty text.
EmptyCodeData == [t |-> "object", code |-> JStr(""), results |-> JNull]

\* code_data of the join: null when the review has no code_reviews row.
CodeDataValues == {JNull, EmptyCodeData} \cup {CodeData(r) : r \in ResultsValues}

\* The descriptive columns of a reviews row: one row with every column
\* filled, one with the nullable columns null and the counts zero.
DescriptiveFull ==
    [title |-> JStr("Parser"), description |-> JStr("A parser"),
     language |-> JStr("python"), review_type |-> JStr("full"),
     created_at |-> JStr("2024-05-01"), completed_at |-> JStr("2024-05-02"),
     improvement_rate |-> JNum(5), lines_of_code |-> JNum(10),
     issues |-> JNum(2), suggestions |-> JNum(1),
     github_repo |-> JStr("o/r"), github_path |-> JStr("a.py")]

DescriptiveBare ==
    [title |-> JStr(""), description |-> JNull,
     language |-> JStr("python"), review_type |-> JStr("full"),
     created_at |-> JStr("2024-05-01"), completed_at |-> JStr("2024-05-02"),
     improvement_rate |-> JNull, lines_of_code |-> JNum(0),
     issues |-> JNum(0), suggestions |-> JNum(0),
     github_repo |-> JNull, github_path |-> JNull]

DescriptiveValues == {DescriptiveFull, DescriptiveBare}

\* One 200 body of GET /dashboard/review/{id}: the reviews row, with the
\* linked rows of the other four tables joined in. completed_at is set for
\* a completed review only (the update_completed_at trigger).
ReviewBody(rid, st, sc, cd, ai, me, iss, d) ==
    [t |-> "object", id |-> JStr(rid), user_id |-> JStr(Owner(rid)),
     status |-> JStr(st), score |-> sc,
     title |-> d.title, description |-> d.description, language |-> d.language,
     review_type |-> d.review_type, created_at |-> d.created_at,
     completed_at |-> IF st = "completed" THEN d.completed_at ELSE JNull,
     improvement_rate |-> d.improvement_rate, lines_of_code |-> d.lines_of_code,
     issues |-> d.issues, suggestions |-> d.suggestions,
     github_repo |-> d.github_repo, github_path |-> d.github_path,
     code_data |-> cd, ai_analysis |-> ai, metrics |-> me, detailed_issues |-> iss]

\* What the join holds for each of the three linked tables: null when no row
\* is linked (for review_issues also the empty list), else the row(s).
LinkedAnalysisValues == {JNull, LinkedAnalysis}
LinkedMetricsValues == {JNull, LinkedMetrics}
LinkedIssuesValues == {JNull, JArr(<<>>), JArr(<<LinkedIssue>>)}
ScoreValues == {JNull, JNum(0), JNum(8)}

\* Every combination of linked rows and payload.
AllBodies(rid) ==
    {ReviewBody(rid, st, sc, cd, ai, me, iss, d) :
        st \in Statuses, sc \in ScoreValues, cd \in CodeDataValues,
        ai \in LinkedAnalysisValues, me \in LinkedMetricsValues,
        iss \in LinkedIssuesValues, d \in DescriptiveValues}

\* Three reviews per id: a completed one with every linked row, a pending one
\* with a payload only, a failed one with nothing.
FewBodies(rid) ==
    {ReviewBody(rid, "completed", JNum(8), CodeData(JNull), LinkedAnalysis,
                LinkedMetrics, JArr(<<LinkedIssue>>), DescriptiveFull),
     ReviewBody(rid, "pending", JNull, CodeData(JStr(TextAll)), JNull, JNull, JNull,
                DescriptiveFull),
     ReviewBody(rid, "failed", JNull, JNull, JNull, JNull, JArr(<<>>), DescriptiveBare)}

\* The reviews the store may hold under an id: every combination, or the
\* three above.
Bodies(depth, rid) == IF depth = "all" THEN AllBodies(rid) ELSE FewBodies(rid)

ErrorBody == [t |-> "object", detail |-> JStr("error")]

Http(rid, uid, st, body) ==
    [kind |-> "http", url |-> rid, user |-> uid, status |-> st,
     ok |-> (st = 200), body |-> body]

\* fetch() rejected: no response at all.
NetworkError(rid, uid) ==
    [kind |-> "network", url |-> rid, user |-> uid, status |-> 0,
     ok |-> FALSE, body |-> JUndef]

NoResponse == [kind |-> "none", url |-> "", user |-> "", status |-> 0,
               ok |-> FALSE, body |-> JUndef]

\* GET /dashboard/review/{rid}?user_id={uid}: 404 when no review has the id
\* (or a 200 with a null body), 403 when the review belongs to another user,
\* whatever the body then holds, else 200 with the joined review.
BackendResponses(rid, uid, depth) ==
    IF rid \in MissingIds
    THEN {Http(rid, uid, 404, b) : b \in {JNull, ErrorBody}}
         \cup {Http(rid, uid, 200, JNull)}
    ELSE IF Owner(rid) # uid
    THEN {Http(rid, uid, 403, b) : b \in {JNull, ErrorBody} \cup Bodies(depth, rid)}
    ELSE {Http(rid, uid, 200, b) : b \in Bodies(depth, rid)}

(***************************************************************************)
(* useReviewDetail: the aggregation.                                       *)
(***************************************************************************)
\* ParseResults without its try/catch: the SyntaxError of JSON.parse leaves
\* the function.
ParseResults_NoCatch(reviewData) ==
    LET results == OptGet(Get(reviewData, "code_data"), "results")
    IN  IF ~Truthy(results) THEN [threw |-> FALSE, value |-> JUndef]
        ELSE IF results.t = "string"
             THEN LET r == JSONParse(results.s)
                  IN  [threw |-> ~r.ok, value |-> r.value]
             ELSE [threw |-> FALSE, value |-> results]

\* ParseResults decoding strings only: a structured payload is dropped.
ParseResults_StringsOnly(reviewData) ==
    LET results == OptGet(Get(reviewData, "code_data"), "results")
    IN  IF ~Truthy(results) THEN [threw |-> FALSE, value |-> JUndef]
        ELSE IF results.t = "string"
             THEN LET r == JSONParse(results.s)
                  IN  IF r.ok THEN [threw |-> FALSE, value |-> r.value]
                      ELSE [threw |-> FALSE, value |-> JUndef]
             ELSE [threw |-> FALSE, value |-> JUndef]

\* let parsedResults: the results payload, decoded when it is a string; a
\* decode failure is caught and leaves parsedResults undefined.
ParseResults(reviewData) ==
    LET results == OptGet(Get(reviewData, "code_data"), "results")
    IN  IF ~Truthy(results) THEN [threw |-> FALSE, value |-> JUndef]
        ELSE IF results.t = "string"
             THEN LET r == JSONParse(results.s)
                  IN  IF r.ok THEN [threw |-> FALSE, value |-> r.value]
                      ELSE [threw |-> FALSE, value |-> JUndef]
             ELSE [threw |-> FALSE, value |-> results]

\* ResolveAnalysis with the two sources in the other order.
ResolveAnalysis_PayloadFirst(reviewData, parsedResults) ==
    Or(Or(OptGet(parsedResults, "analysis"), Get(reviewData, "ai_analysis")), JUndef)

\* ai_analysis: reviewData.ai_analysis || parsedResults?.analysis || undefined
ResolveAnalysis(reviewData, parsedResults) ==
    Or(Or(Get(reviewData, "ai_analysis"), OptGet(parsedResults, "analysis")), JUndef)

\* ResolveMetrics taking the source the analysis came from.
ResolveMetrics_FollowsAnalysis(reviewData, parsedResults) ==
    IF Truthy(Get(reviewData, "ai_analysis"))
    THEN Or(Get(reviewData, "metrics"), JUndef)
    ELSE Or(OptGet(parsedResults, "metrics"), JUndef)

\* metrics: reviewData.metrics || parsedResults?.metrics || undefined
ResolveMetrics(reviewData, parsedResults) ==
    Or(Or(Get(reviewData, "metrics"), OptGet(parsedResults, "metrics")), JUndef)

\* detailed_issues: reviewData.detailed_issues || parsedResults?.issues || []
ResolveIssues(reviewData, parsedResults) ==
    Or(Or(Get(reviewData, "detailed_issues"), OptGet(parsedResults, "issues")),
       JArr(<<>>))

\* ResolveCode without the default.
ResolveCode_NoDefault(reviewData) == OptGet(Get(reviewData, "code_data"), "code")

\* code: reviewData.code_data?.code || ""
ResolveCode(reviewData) ==
    Or(OptGet(Get(reviewData, "code_data"), "code"), JStr(""))

OverriddenKeys == {"code", "ai_analysis", "metrics", "detailed_issues"}

\* FormatReview spreading the decoded payload over the review as well:
\* {...reviewData, ...parsedResults, code, ai_analysis, metrics, detailed_issues}
FormatReview_SpreadPayload(reviewData) ==
    LET p == ParseResults(reviewData)
        parsedResults == p.value
    IN  [threw |-> p.threw,
         value |->
            [k \in DOMAIN reviewData \cup OverriddenKeys |->
                CASE k = "code" -> ResolveCode(reviewData)
                  [] k = "ai_analysis" -> ResolveAnalysis(reviewData, parsedResults)
                  [] k = "metrics" -> ResolveMetrics(reviewData, parsedResults)
                  [] k = "detailed_issues" -> ResolveIssues(reviewData, parsedResults)
                  [] OTHER ->
                        IF k # "t" /\ OptGet(parsedResults, k) # JUndef
                        THEN OptGet(parsedResults, k)
                        ELSE reviewData[k]]]

\* FormatReview giving the nullable columns a default:
\* {...reviewData, description: reviewData.description || "", ...}
FormatReview_DefaultsNullable(reviewData) ==
    LET p == ParseResults(reviewData)
        parsedResults == p.value
    IN  [threw |-> p.threw,
         value |->
            [k \in DOMAIN reviewData \cup OverriddenKeys |->
                CASE k = "code" -> ResolveCode(reviewData)
                  [] k = "ai_analysis" -> ResolveAnalysis(reviewData, parsedResults)
                  [] k = "metrics" -> ResolveMetrics(reviewData, parsedResults)
                  [] k = "detailed_issues" -> ResolveIssues(reviewData, parsedResults)
                  [] k \in {"description", "github_repo", "github_path"} ->
                        Or(reviewData[k], JStr(""))
                  [] OTHER -> reviewData[k]]]

\* const detailedReview = {...reviewData, code, ai_analysis, metrics,
\* detailed_issues}
FormatReview(reviewData) ==
    LET p == ParseResults(reviewData)
        parsedResults == p.value
    IN  [threw |-> p.threw,
         value |->
            [k \in DOMAIN reviewData \cup OverriddenKeys |->
                CASE k = "code" -> ResolveCode(reviewData)
                  [] k = "ai_analysis" -> ResolveAnalysis(reviewData, parsedResults)
                  [] k = "metrics" -> ResolveMetrics(reviewData, parsedResults)
                  [] k = "detailed_issues" -> ResolveIssues(reviewData, parsedResults)
                  [] OTHER -> reviewData[k]]]

\* TryFetchReview without the response.ok test.
TryFetchReview_IgnoresOk(resp) ==
    IF resp.kind = "network" THEN [threw |-> TRUE, value |-> JUndef]
    ELSE IF ~Truthy(resp.body) THEN [threw |-> TRUE, value |-> JUndef]
    ELSE FormatReview(resp.body)

\* The body of the try block of fetchReview from the fetch on: what it hands
\* to setReview, or that it threw.
TryFetchReview(resp) ==
    IF resp.kind = "network" THEN [threw |-> TRUE, value |-> JUndef]
    ELSE IF ~resp.ok THEN [threw |-> TRUE, value |-> JUndef]
    ELSE IF ~Truthy(resp.body) THEN [threw |-> TRUE, value |-> JUndef]
    ELSE FormatReview(resp.body)

\* catch (err): the message setError receives, whatever was thrown.
CatchError == JStr("Failed to fetch review details")

(***************************************************************************)
(* ReviewDetailPage: what is rendered.                                     *)
(***************************************************************************)
\* getStatusIcon: the icon and its colour class.
getStatusIcon(status) ==
    CASE status = JStr("completed") -> <<"CheckCircle", "text-green-600">>
      [] status = JStr("pending") -> <<"Clock", "text-yellow-600">>
      [] status = JStr("failed") -> <<"XCircle", "text-red-600">>
      [] OTHER -> <<"Clock", "text-slate-400">>

\* getStatusColor: the colour class of the status badge.
getStatusColor(status) ==
    CASE status = JStr("completed") -> "bg-green-100"
      [] status = JStr("pending") -> "bg-yellow-100"
      [] status = JStr("failed") -> "bg-red-100"
      [] OTHER -> "bg-slate-100"

Sections_AnalysisAnyStatus(rev) ==
    LET status == Get(rev, "status")
        completed == status = JStr("completed")
    IN  {"header", "code", "actions", "details"}
        \cup (IF completed /\ Truthy(Get(rev, "score")) /\ Truthy(Get(rev, "ai_analysis"))
              THEN {"score_overview"} ELSE {})
        \cup (IF Truthy(Get(rev, "ai_analysis")) /\ Truthy(Get(rev, "detailed_issues"))
              THEN {"ai_analysis"} ELSE {})
        \cup (IF status = JStr("pending") THEN {"pending_card", "pending_stats"} ELSE {})
        \cup (IF status = JStr("failed") THEN {"failed_card", "failed_stats"} ELSE {})
        \cup (IF completed /\ Truthy(Get(rev, "score")) THEN {"quick_score"} ELSE {})

\* The cards of the review screen, by the conditions of the JSX.
Sections(rev) ==
    LET status == Get(rev, "status")
        completed == status = JStr("completed")
    IN  {"header", "code", "actions", "details"}
        \cup (IF completed /\ Truthy(Get(rev, "score")) /\ Truthy(Get(rev, "ai_analysis"))
              THEN {"score_overview"} ELSE {})
        \cup (IF completed /\ Truthy(Get(rev, "ai_analysis"))
                 /\ Truthy(Get(rev, "detailed_issues"))
              THEN {"ai_analysis"} ELSE {})
        \cup (IF status = JStr("pending") THEN {"pending_card", "pending_stats"} ELSE {})
        \cup (IF status = JStr("failed") THEN {"failed_card", "failed_stats"} ELSE {})
        \cup (IF completed /\ Truthy(Get(rev, "score")) THEN {"quick_score"} ELSE {})

\* if (loading) skeleton; if (error || !review) the alert; else the review.
ViewDetail(rev, ld, err) ==
    IF ld THEN [screen |-> "loading", message |-> JUndef, sections |-> {}]
    ELSE IF Truthy(err) \/ ~Truthy(rev)
         THEN [screen |-> "error", message |-> Or(err, JStr("Review not found")),
               sections |-> {}]
         ELSE [screen |-> "review", message |-> JUndef, sections |-> Sections(rev)]

PushSubmit == "router.push(/dashboard/submit)"

\* The buttons of the review screen, by card, with their onClick handler
\* ("none" for a button the JSX gives no handler).
Buttons(rev) ==
    LET status == Get(rev, "status")
        Button(card, label, onClick) == [card |-> card, label |-> label, onClick |-> onClick]
    IN  {Button("header", "Share", "none"), Button("header", "Export", "none"),
         Button("header", "Back", "router.back"),
         Button("actions", "Submit New Review", PushSubmit)}
        \cup (IF "ai_analysis" \in Sections(rev)
                 /\ Get(rev, "detailed_issues").t = "array"
                 /\ Len(Get(rev, "detailed_issues").items) > 0
              THEN {Button("ai_analysis", "issue", "setSelectedIssue")} ELSE {})
        \cup (IF status = JStr("failed")
              THEN {Button("failed_card", "Submit New Review", PushSubmit)} ELSE {})
        \cup (IF status = JStr("completed")
              THEN {Button("actions", "Download Report", "none"),
                    Button("actions", "Share Review", "none")} ELSE {})
        \cup (IF Truthy(Get(rev, "github_repo"))
              THEN {Button("actions", "View on GitHub", "none")} ELSE {})

\* The review screen: the status icon and badge of the header, and the cards.
Rendering(rev) ==
    [icon |-> getStatusIcon(Get(rev, "status")),
     badge |-> getStatusColor(Get(rev, "status")),
     sections |-> Sections(rev)]

RemoveAt(seq, k) == SubSeq(seq, 1, k - 1) \o SubSeq(seq, k + 1, Len(seq))

(***************************************************************************)
(* HistoryPage: the rows, the filter and the sort.                         *)
(***************************************************************************)
\* A string the code looks into, character by character.
Text(chars) == [t |-> "text", chars |-> chars]

\* String.prototype.toLowerCase on the letters the rows and queries use.
LowerChar(c) == CASE c = "A" -> "a" [] c = "B" -> "b" [] OTHER -> c
ToLowerCase(chars) == [i \in 1..Len(chars) |-> LowerChar(chars[i])]

\* String.prototype.includes
Includes(chars, q) ==
    \E i \in 1..(Len(chars) - Len(q) + 1) : SubSeq(chars, i, i + Len(q) - 1) = q

\* The rows GET /dashboard/history may return. created_at is the timestamptz
\* of the row in microseconds, which its ISO text carries in full.
HistoryRow(n, lang, title, code, created) ==
    [id |-> n, language |-> lang, title |-> title, code |-> code,
     created_at |-> created, status |-> "completed"]

RowPool ==
    {HistoryRow(1, Text(<<"a", "B">>), Text(<<"b">>), JNull, 1000),
     HistoryRow(2, JNull, Text(<<"A">>), Text(<<"b", "b">>), 1500),
     HistoryRow(3, Text(<<"b">>), JNull, Text(<<"A", "b">>), 2000),
     HistoryRow(4, Text(<<>>), Text(<<"B", "A">>), JNull, 3000),
     HistoryRow(5, Text(<<"b">>), Text(<<"b">>), Text(<<"b">>), 2500)}

\* The lists of at most MaxRows different rows, in any order.
HistoryLists ==
    {l \in UNION {[1..n -> RowPool] : n \in 0..MaxRows} :
        \A i, j \in 1..Len(l) : i # j => l[i] # l[j]}

Queries ==
    {<<>>, <<"a">>, <<"A">>, <<"A", "B">>, <<"B", "a">>, <<"b", "b">>}

\* useState("all") and useState("newest"): nothing on the page calls
\* setLanguageFilter or setSortBy.
languageFilter == Text(<<"a", "l", "l">>)
sortBy == "newest"

\* MatchesSearch comparing the query as typed.
MatchesSearch_QueryAsTyped(item, q) ==
    LET field(f) == item[f].t = "text" /\ Includes(ToLowerCase(item[f].chars), q)
    IN  q = <<>> \/ field("language") \/ field("title") \/ field("code")

\* const matchesSearch: the query is empty, or the lowercased language,
\* title or code includes the lowercased query; item.f?. yields undefined
\* for a missing field.
MatchesSearch(item, q) ==
    LET field(f) ==
            item[f].t = "text" /\ Includes(ToLowerCase(item[f].chars), ToLowerCase(q))
    IN  q = <<>> \/ field("language") \/ field("title") \/ field("code")

\* const matchesLanguage
MatchesLanguage(item, lf) ==
    \/ lf = Text(<<"a", "l", "l">>)
    \/ /\ item.language.t = "text"
       /\ ToLowerCase(item.language.chars) = ToLowerCase(lf.chars)

\* new Date(created_at).getTime(): a Date keeps milliseconds.
DateGetTime(created) == created \div 1000

\* Compare with the sort order ignored.
Compare_AlwaysNewest(a, b, sb) == DateGetTime(b.created_at) - DateGetTime(a.created_at)

\* The comparator handed to sort.
Compare(a, b, sb) ==
    IF sb = "newest"
    THEN DateGetTime(b.created_at) - DateGetTime(a.created_at)
    ELSE DateGetTime(a.created_at) - DateGetTime(b.created_at)

\* Array.prototype.sort is stable: an element goes after those that compare
\* lower or equal and came before it.
RECURSIVE InsertSorted(_, _, _)
InsertSorted(sorted, x, sb) ==
    IF sorted = <<>> THEN <<x>>
    ELSE IF Compare(Head(sorted), x, sb) > 0 THEN <<x>> \o sorted
    ELSE <<Head(sorted)>> \o InsertSorted(Tail(sorted), x, sb)

RECURSIVE Sort(_, _)
Sort(list, sb) ==
    IF list = <<>> THEN <<>>
    ELSE InsertSorted(Sort(SubSeq(list, 1, Len(list) - 1), sb), list[Len(list)], sb)

\* history.filter(...).sort(...)
Filtered(list, q, lf, sb) ==
    Sort(SelectSeq(list, LAMBDA item : MatchesSearch(item, q) /\ MatchesLanguage(item, lf)),
         sb)

\* Render sorting the history array itself: history.sort(...).filter(...)
Render_SortInPlace(list, q) ==
    [history |-> Sort(list, sortBy),
     filtered |-> SelectSeq(Sort(list, sortBy),
                            LAMBDA item : MatchesSearch(item, q)
                                          /\ MatchesLanguage(item, languageFilter))]

\* One render: filter copies, so the sort touches the copy only. history is
\* the state array after the render, filtered the const of the render.
Render(list, q) ==
    [history |-> list, filtered |-> Filtered(list, q, languageFilter, sortBy)]

HistoryHttp(st, body) == [kind |-> "http", status |-> st, ok |-> (st = 200), body |-> body]

\* A body that is not JSON: res.json() rejects.
InvalidJson == [t |-> "invalid"]

\* What the fetch of /dashboard/history may settle with: a rejection, a
\* non-2xx status, a 200 whose body is not JSON or not an array, a 200 with
\* the rows.
HistoryResponses ==
    {[kind |-> "network", status |-> 0, ok |-> FALSE, body |-> JUndef],
     HistoryHttp(500, ErrorBody), HistoryHttp(200, InvalidJson),
     HistoryHttp(200, JNull), HistoryHttp(200, ErrorBody)}
    \cup {HistoryHttp(200, JArr(l)) : l \in HistoryLists}

\* .then(res => ...).then(data => ...).catch(...): the array setHistory
\* receives.
HistoryFrom(resp) ==
    IF resp.kind = "network" \/ ~resp.ok THEN <<>>
    ELSE IF resp.body = InvalidJson THEN <<>>
    ELSE IF ~Truthy(resp.body) \/ resp.body.t # "array" THEN <<>>
    ELSE resp.body.items

Init ==
    /\ id \in RouteIds
    /\ effectDue = TRUE
    /\ review = JNull
    /\ loading = TRUE
    /\ error = JNull
    /\ inflight = <<>>
    /\ response = NoResponse
    /\ h_userId = ""
    /\ h_pc = "getUser"
    /\ history = <<>>
    /\ h_loading = TRUE
    /\ h_data = JUndef
    /\ searchQuery = <<>>
    /\ filtered = <<>>
    /\ route = ""
    /\ pendingNav = ""
    /\ a_user = JNull
    /\ a_loading = TRUE
    /\ l_mounted = FALSE
    /\ g_mounted = FALSE
    /\ d_pc = "idle"
    /\ fieldGroup = NoFieldGroup
    /\ reviewsRow = NoRow
    /\ dbNow = 1
    /\ s_pc = "checking"
    /\ s_user = JNull
    /\ s_code = <<>>
    /\ s_title = <<>>
    /\ s_language = ""
    /\ githubRepo = ""
    /\ githubPath = ""
    /\ submissionMethod = "paste"
    /\ isSubmitting = FALSE
    /\ uploadProgress = 0
    /\ s_error = ""
    /\ success = FALSE
    /\ s_inflight = <<>>
    /\ s_redirect = "none"
    /\ s_event = NoEvent
    /\ st_pc = "idle"
    /\ st_reviews = <<>>
    /\ stats = NoStats

\* RunEffect with a retry: it also runs again, without a route change, when
\* the review held has failed.
RunEffect_RetryFailed ==
    /\ \/ effectDue
       \/ /\ Get(review, "status") = JStr("failed")
          /\ inflight = <<>>
    /\ effectDue' = FALSE
    /\ IF id = ""
       THEN UNCHANGED <<loading, inflight>>
       ELSE /\ loading' = TRUE
            /\ inflight' = Append(inflight, [id |-> id, pc |-> "getUser", user |-> ""])
    /\ UNCHANGED <<id, review, error, response>>
    /\ UNCHANGED outsideDetail

\* useEffect(..., [id]): returns at once without an id, else calls
\* fetchReview, which runs to its first await.
RunEffect ==
    /\ effectDue
    /\ effectDue' = FALSE
    /\ IF id = ""
       THEN UNCHANGED <<loading, inflight>>
       ELSE /\ loading' = TRUE
            /\ inflight' = Append(inflight, [id |-> id, pc |-> "getUser", user |-> ""])
    /\ UNCHANGED <<id, review, error, response>>
    /\ UNCHANGED outsideDetail

\* The route parameter changes while the page stays mounted.
ChangeId ==
    /\ ~effectDue
    /\ Len(inflight) < MaxInflight
    /\ \E next \in RouteIds \ {id} : id' = next
    /\ effectDue' = TRUE
    /\ UNCHANGED <<review, loading, error, inflight, response>>
    /\ UNCHANGED outsideDetail

\* await supabase.auth.getUser() settles: with the user, or with an error or
\* no user, which throws into catch and finally.
GetUserSettle ==
    \E k \in 1..Len(inflight) :
        /\ inflight[k].pc = "getUser"
        /\ \/ /\ inflight' = [inflight EXCEPT ![k].pc = "fetch", ![k].user = CallerUserId]
              /\ UNCHANGED <<error, loading>>
           \/ /\ inflight' = RemoveAt(inflight, k)
              /\ error' = CatchError
              /\ loading' = FALSE
        /\ UNCHANGED <<id, effectDue, review, response>>
        /\ UNCHANGED outsideDetail

\* await fetch(...) settles and the rest of fetchReview runs: setReview on
\* success, setError in catch, setLoading(false) in finally.
FetchSettle(depth) ==
    \E k \in 1..Len(inflight) :
        /\ inflight[k].pc = "fetch"
        /\ \E resp \in BackendResponses(inflight[k].id, inflight[k].user, depth)
                        \cup {NetworkError(inflight[k].id, inflight[k].user)} :
              LET r == TryFetchReview(resp)
              IN  /\ review' = IF r.threw THEN review ELSE r.value
                  /\ error' = IF r.threw THEN CatchError ELSE error
                  /\ response' = resp
        /\ loading' = FALSE
        /\ inflight' = RemoveAt(inflight, k)
        /\ UNCHANGED <<id, effectDue>>
        /\ UNCHANGED outsideDetail

FetchSettleAll == FetchSettle("all")
FetchSettleFew == FetchSettle("few")

\* getUser settles: with a user id, setUserId runs and the effect on
\* [userId] starts the fetch; without one nothing changes.
HistoryGetUser ==
    /\ h_pc = "getUser"
    /\ \/ /\ h_userId' = CallerUserId
          /\ h_loading' = TRUE
          /\ h_pc' = "fetch"
       \/ /\ h_pc' = "nouser"
          /\ UNCHANGED <<h_userId, h_loading>>
    /\ history' = Render(history, searchQuery).history
    /\ filtered' = Render(history, searchQuery).filtered
    /\ UNCHANGED <<h_data, searchQuery>>
    /\ UNCHANGED outsideHistory

\* HistoryFetchSettle with setLoading(false) at the end of the second then
\* instead of in finally: a failed request leaves loading as it was.
HistoryFetchSettle_NoFinally ==
    /\ h_pc = "fetch"
    /\ \E resp \in HistoryResponses :
          /\ h_data' = resp.body
          /\ history' = Render(HistoryFrom(resp), searchQuery).history
          /\ filtered' = Render(HistoryFrom(resp), searchQuery).filtered
          /\ h_loading' = IF resp.kind = "http" /\ resp.ok /\ resp.body # InvalidJson
                          THEN FALSE ELSE h_loading
    /\ h_pc' = "done"
    /\ UNCHANGED <<h_userId, searchQuery>>
    /\ UNCHANGED outsideHistory

\* The fetch of /dashboard/history settles: setHistory, then
\* setLoading(false) in finally, then the render.
HistoryFetchSettle ==
    /\ h_pc = "fetch"
    /\ \E resp \in HistoryResponses :
          /\ h_data' = resp.body
          /\ history' = Render(HistoryFrom(resp), searchQuery).history
          /\ filtered' = Render(HistoryFrom(resp), searchQuery).filtered
    /\ h_loading' = FALSE
    /\ h_pc' = "done"
    /\ UNCHANGED <<h_userId, searchQuery>>
    /\ UNCHANGED outsideHistory

\* onChange of the search input (rendered once loading is false), then the
\* render.
SetSearchQuery ==
    /\ ~h_loading
    /\ \E q \in Queries \ {searchQuery} :
          /\ searchQuery' = q
          /\ history' = Render(history, q).history
          /\ filtered' = Render(history, q).filtered
    /\ UNCHANGED <<h_userId, h_pc, h_loading, h_data>>
    /\ UNCHANGED outsideHistory

NextHistory == HistoryGetUser \/ HistoryFetchSettle \/ SetSearchQuery
SpecHistory == Init /\ [][NextHistory]_vars

\* One visit of the detail page: the id never changes.
NextAggregate == RunEffect \/ GetUserSettle \/ FetchSettleAll
SpecAggregate == Init /\ [][NextAggregate]_vars

\* The detail page with route changes.
NextDetail == ChangeId \/ RunEffect \/ GetUserSettle \/ FetchSettleFew
SpecDetail == Init /\ [][NextDetail]_vars

(***************************************************************************)
(* Routing by authentication: DashboardLayout (app/dashboard/layout.tsx),  *)
(* LoginPage (app/login/page.tsx), the landing page (app/page.tsx) and the *)
(* session test of DashboardPage. useAuth is the context the pages read:   *)
(* loading until the session is known, then a user or none.                *)
(***************************************************************************)
\* const navigation, and the two routes of the user menu.
DashboardRoutes ==
    {"/dashboard", "/dashboard/submit", "/dashboard/history", "/dashboard/profile",
     "/dashboard/settings"}

Routes == {"/", "/login"} \cup DashboardRoutes

AuthUser == JStr(CallerUserId)

\* LayoutRender without the if (!user) return null.
LayoutRender_NoUserGuard(user, ld, mounted) ==
    IF ~mounted \/ ld THEN "spinner" ELSE "children"

\* DashboardLayout: the spinner, null, or the sidebar with {children}.
LayoutRender(user, ld, mounted) ==
    IF ~mounted \/ ld THEN "spinner"
    ELSE IF ~Truthy(user) THEN "null"
    ELSE "children"

\* DashboardLayout, the effect on [user, loading, mounted, router]: the
\* route it pushes, "" for none.
LayoutEffect(user, ld, mounted) ==
    IF ~ld /\ ~Truthy(user) /\ mounted THEN "/login" ELSE ""

\* LoginPage: the spinner, null, or the login form.
LoginRender(user, ld, mounted) ==
    IF ~mounted \/ ld THEN "spinner"
    ELSE IF Truthy(user) THEN "null"
    ELSE "login_form"

\* LoginPage, the effect on [user, loading, router].
LoginEffect(user, ld) ==
    IF Truthy(user) /\ ~ld THEN "/dashboard" ELSE ""

\* The effect of the page at r that depends on the auth state; the landing
\* page has none.
AuthEffect(r, user, ld, mounted) ==
    CASE r \in DashboardRoutes -> LayoutEffect(user, ld, mounted)
      [] r = "/login" -> LoginEffect(user, ld)
      [] OTHER -> ""

\* router.push(dest) after earlier pushes: the last one stands.
Push(pending, dest) == IF dest = "" THEN pending ELSE dest

\* What the page at the current route shows.
Screen ==
    CASE route \in DashboardRoutes -> LayoutRender(a_user, a_loading, l_mounted)
      [] route = "/login" -> LoginRender(a_user, a_loading, g_mounted)
      [] route = "/" -> "hero"
      [] OTHER -> "none"

\* The browser loads a page of the app: first render, nothing mounted yet,
\* the auth state loading.
Open ==
    /\ route = ""
    /\ \E r \in Routes :
          /\ route' = r
          /\ d_pc' = IF r = "/dashboard" THEN "getSession" ELSE "idle"
          /\ pendingNav' = Push(pendingNav, AuthEffect(r, a_user, a_loading, FALSE))
    /\ UNCHANGED <<a_user, a_loading, l_mounted, g_mounted>>
    /\ UNCHANGED outsideAuth

\* useEffect(() => setMounted(true), []) of the layout or of the login
\* page, the render it causes and the effects that follow it.
MountEffect ==
    /\ \/ /\ route \in DashboardRoutes
          /\ ~l_mounted
          /\ l_mounted' = TRUE
          /\ pendingNav' = Push(pendingNav, LayoutEffect(a_user, a_loading, TRUE))
          /\ UNCHANGED g_mounted
       \/ /\ route = "/login"
          /\ ~g_mounted
          /\ g_mounted' = TRUE
          /\ UNCHANGED <<l_mounted, pendingNav>>
    /\ UNCHANGED <<route, a_user, a_loading, d_pc>>
    /\ UNCHANGED outsideAuth

\* The auth context learns the session: loading ends with a user or with
\* none, the mounted page renders again and its effect runs.
AuthSettle ==
    /\ route # ""
    /\ a_loading
    /\ a_loading' = FALSE
    /\ \E u \in {JNull, AuthUser} :
          /\ a_user' = u
          /\ pendingNav' = Push(pendingNav, AuthEffect(route, u, FALSE, l_mounted))
    /\ UNCHANGED <<route, l_mounted, g_mounted, d_pc>>
    /\ UNCHANGED outsideAuth

\* handleGitHubLogin on the login form, and the sign-in completing: the
\* context gets the user and the effect of the login page runs.
SignIn ==
    /\ Screen = "login_form"
    /\ a_user' = AuthUser
    /\ pendingNav' = Push(pendingNav, AuthEffect(route, AuthUser, a_loading, l_mounted))
    /\ UNCHANGED <<route, a_loading, l_mounted, g_mounted, d_pc>>
    /\ UNCHANGED outsideAuth

\* handleLogout: signOut() clears the user, the effect of the layout runs,
\* then router.push("/login").
Logout ==
    /\ Screen = "children"
    /\ a_user' = JNull
    /\ pendingNav' = Push(Push(pendingNav, LayoutEffect(JNull, a_loading, l_mounted)),
                          "/login")
    /\ UNCHANGED <<route, a_loading, l_mounted, g_mounted, d_pc>>
    /\ UNCHANGED outsideAuth

\* The session ends without a logout (it expired, or was ended in another
\* tab): the context drops the user and the effect of the page runs.
SessionLost ==
    /\ route # ""
    /\ ~a_loading
    /\ Truthy(a_user)
    /\ a_user' = JNull
    /\ pendingNav' = Push(pendingNav, AuthEffect(route, JNull, a_loading, l_mounted))
    /\ UNCHANGED <<route, a_loading, l_mounted, g_mounted, d_pc>>
    /\ UNCHANGED outsideAuth

\* The router commits the pushed route. Between two dashboard routes the
\* layout stays mounted; any other page mounts anew and runs its effects.
Navigate ==
    /\ pendingNav # ""
    /\ pendingNav # route
    /\ route' = pendingNav
    /\ d_pc' = IF pendingNav = "/dashboard" THEN "getSession" ELSE "idle"
    /\ IF pendingNav \in DashboardRoutes /\ route \in DashboardRoutes
       THEN /\ pendingNav' = ""
            /\ UNCHANGED <<l_mounted, g_mounted>>
       ELSE /\ pendingNav' = AuthEffect(pendingNav, a_user, a_loading, FALSE)
            /\ l_mounted' = FALSE
            /\ g_mounted' = FALSE
    /\ UNCHANGED <<a_user, a_loading>>
    /\ UNCHANGED outsideAuth

\* A click on a link: Go to Dashboard on the landing page, or an entry of
\* the sidebar or of the user menu in the layout.
ClickLink ==
    /\ \/ /\ route = "/"
          /\ pendingNav' = "/dashboard"
       \/ /\ Screen = "children"
          /\ \E r \in DashboardRoutes \ {route} : pendingNav' = r
    /\ UNCHANGED <<route, a_user, a_loading, l_mounted, g_mounted, d_pc>>
    /\ UNCHANGED outsideAuth

\* DashboardPage, getUserData: getSession settles with the session, or with
\* an error or none, which pushes /login.
DashboardGetSession ==
    /\ route = "/dashboard"
    /\ Screen = "children"
    /\ d_pc = "getSession"
    /\ d_pc' = "done"
    /\ \/ UNCHANGED pendingNav
       \/ pendingNav' = "/login"
    /\ UNCHANGED <<route, a_user, a_loading, l_mounted, g_mounted>>
    /\ UNCHANGED outsideAuth

NextAuth ==
    \/ Open \/ MountEffect \/ AuthSettle \/ SignIn \/ Logout \/ SessionLost
    \/ Navigate \/ ClickLink \/ DashboardGetSession
SpecAuth == Init /\ [][NextAuth]_vars

(***************************************************************************)
(* useReviewDetail: the resolution of one field group, as a function of    *)
(* its two sources. The linked value and the payload value range over      *)
(* every kind of JSON value, the falsy ones included.                      *)
(***************************************************************************)
FieldValues ==
    {JNull, JUndef, JNum(0), JNum(3), JBool(FALSE), JStr(""), JArr(<<>>),
     LinkedAnalysis, JArr(<<PayloadIssue>>)}

\* The three chains of the detailedReview literal, by group.
ResolveGroup(group, reviewData, parsedResults) ==
    CASE group = "analysis" -> ResolveAnalysis(reviewData, parsedResults)
      [] group = "metrics" -> ResolveMetrics(reviewData, parsedResults)
      [] group = "issues" -> ResolveIssues(reviewData, parsedResults)

\* One evaluation of a chain: the linked field of reviewData holds primary,
\* the field of the decoded payload holds fallback.
ResolveFieldGroup ==
    /\ \E group \in {"analysis", "metrics", "issues"}, primary \in FieldValues, fallback \in FieldValues :
          LET reviewData ==
                  [t |-> "object",
                   ai_analysis |-> IF group = "analysis" THEN primary ELSE JNull,
                   metrics |-> IF group = "metrics" THEN primary ELSE JNull,
                   detailed_issues |-> IF group = "issues" THEN primary ELSE JNull]
              parsedResults ==
                  [t |-> "object",
                   analysis |-> IF group = "analysis" THEN fallback ELSE JNull,
                   metrics |-> IF group = "metrics" THEN fallback ELSE JNull,
                   issues |-> IF group = "issues" THEN fallback ELSE JNull]
          IN  fieldGroup' =
                  [group |-> group, primary |-> primary, fallback |-> fallback,
                   resolved |-> ResolveGroup(group, reviewData, parsedResults)]
    /\ UNCHANGED outsideResolve

SpecResolve == Init /\ [][ResolveFieldGroup]_vars

(***************************************************************************)
(* The reviews table under the update_completed_at trigger                 *)
(* (database_analysis.md), and the processing time the detail page shows   *)
(* from completed_at. Timestamps are seconds of the database clock.        *)
(***************************************************************************)
\* update_completed_at(), the row the UPDATE then writes.
update_completed_at(old, new) ==
    IF new.status = "completed" /\ old.status # "completed"
    THEN [new EXCEPT !.completed_at = JNum(dbNow)]
    ELSE IF new.status # "completed"
    THEN [new EXCEPT !.completed_at = JNull]
    ELSE new

\* INSERT INTO reviews: trigger_update_completed_at is BEFORE UPDATE, so the
\* row is stored as given: any status check_status allows, completed_at
\* left NULL or given a value.
InsertReview ==
    /\ reviewsRow = NoRow
    /\ \E status \in Statuses, completed_at \in {JNull, JNum(dbNow)} :
          reviewsRow' = [status |-> status, created_at |-> JNum(dbNow),
                         completed_at |-> completed_at]
    /\ UNCHANGED dbNow
    /\ UNCHANGED outsideDb

\* UPDATE reviews SET status = ..., with or without completed_at = ...; the
\* trigger function runs on the new row before it is written.
UpdateReview ==
    /\ reviewsRow # NoRow
    /\ \E status \in Statuses,
          completed_at \in {reviewsRow.completed_at, JNull, JNum(dbNow)} :
          reviewsRow' =
              update_completed_at(reviewsRow,
                  [reviewsRow EXCEPT !.status = status,
                                     !.completed_at = completed_at])
    /\ UNCHANGED dbNow
    /\ UNCHANGED outsideDb

\* Time passes.
DbTick ==
    /\ dbNow < MaxNow
    /\ dbNow' = dbNow + 1
    /\ UNCHANGED reviewsRow
    /\ UNCHANGED outsideDb

\* calculateProcessingTime: null without completedAt, else the minutes and
\* seconds between the two timestamps.
calculateProcessingTime(createdAt, completedAt) ==
    IF ~Truthy(completedAt) THEN JNull
    ELSE LET diffMs == (completedAt.n - createdAt.n) * 1000
         IN  [t |-> "duration", mins |-> diffMs \div 60000,
              secs |-> (diffMs % 60000) \div 1000]

\* {review.completed_at && processingTime && (... Completed in ...)}
ShowsCompletedIn(rev) ==
    /\ Truthy(rev.completed_at)
    /\ Truthy(calculateProcessingTime(rev.created_at, rev.completed_at))

NextDb == InsertReview \/ UpdateReview \/ DbTick
SpecDb == Init /\ [][NextDb]_vars

(***************************************************************************)
(* SubmitPage (app/dashboard/submit/page.tsx): the session check, the form *)
(* fields, handleGithubImport and handleSubmit. code and title are         *)
(* sequences of characters, so that trim() is computed.                    *)
(***************************************************************************)
\* session.user of a signed-in session
SessionUser == [t |-> "object", id |-> JStr(CallerUserId)]

\* What the user may type as code or title: nothing, a blank, a letter.
FieldTexts == {<<>>, <<" ">>, <<"x">>}

RECURSIVE TrimStart(_)
TrimStart(text) ==
    IF text # <<>> /\ Head(text) = " " THEN TrimStart(Tail(text)) ELSE text

RECURSIVE TrimEnd(_)
TrimEnd(text) ==
    IF text # <<>> /\ text[Len(text)] = " "
    THEN TrimEnd(SubSeq(text, 1, Len(text) - 1)) ELSE text

\* String.prototype.trim
Trim(text) == TrimEnd(TrimStart(text))

\* The answers to POST /api/analyze: the fetch rejects, or a response
\* arrives, ok or not, whose body is JSON (with or without the fields the
\* page reads, or null) or is not JSON.
AnalyzeResponses ==
    {"network", "ok_result", "ok_null", "ok_notjson",
     "fail_detail", "fail_nodetail", "fail_null", "fail_notjson"}

\* TrySubmit without the test of response.ok.
TrySubmit_IgnoresOk(resp) ==
    CASE resp = "network" -> [threw |-> TRUE, message |-> "Failed to fetch"]
      [] resp \in {"ok_notjson", "fail_notjson"} ->
            [threw |-> TRUE, message |-> "Unexpected token"]
      [] OTHER -> [threw |-> FALSE, message |-> ""]

\* handleSubmit with the response that arrived, its try block: whether it
\* threw, and then the message the catch shows
\* (err.message || "Failed to submit code for review. Please try again.").
TrySubmit(resp) ==
    CASE resp = "network" -> [threw |-> TRUE, message |-> "Failed to fetch"]
      [] resp = "fail_notjson" -> [threw |-> TRUE, message |-> "Unexpected token"]
      [] resp = "fail_null" ->
            [threw |-> TRUE, message |-> "Cannot read properties of null"]
      [] resp = "fail_detail" -> [threw |-> TRUE, message |-> "detail"]
      [] resp = "fail_nodetail" -> [threw |-> TRUE, message |-> "Failed to submit code"]
      [] resp = "ok_notjson" -> [threw |-> TRUE, message |-> "Unexpected token"]
      [] OTHER -> [threw |-> FALSE, message |-> ""]

\* checkSession settles: a session (its own, or the one set from the
\* access_token of the URL) gives the user; none replaces the route by
\* /login.
CheckSession ==
    /\ s_pc = "checking"
    /\ \/ /\ s_user' = SessionUser
          /\ s_pc' = "checked"
       \/ /\ s_pc' = "login"
          /\ UNCHANGED s_user
    /\ s_event' = [kind |-> "checkSession", sent |-> FALSE, resp |-> "none"]
    /\ UNCHANGED <<s_code, s_title, s_language, githubRepo, githubPath,
                   submissionMethod, isSubmitting, uploadProgress, s_error,
                   success, s_inflight, s_redirect>>
    /\ UNCHANGED outsideSubmit

\* The form is rendered: not the success card, and the session is checked.
FormRendered == ~success /\ s_pc = "checked"

\* One of the setters of the form state runs: setCode, setTitle,
\* setLanguage, setGithubRepo, setGithubPath or setSubmissionMethod.
EditFields ==
    /\ \/ /\ submissionMethod = "paste" \/ s_code # <<>>
          /\ \E text \in FieldTexts \ {s_code} : s_code' = text
          /\ UNCHANGED <<s_title, s_language, githubRepo, githubPath, submissionMethod>>
       \/ /\ submissionMethod = "paste" \/ s_code # <<>>
          /\ \E text \in FieldTexts \ {s_title} : s_title' = text
          /\ UNCHANGED <<s_code, s_language, githubRepo, githubPath, submissionMethod>>
       \/ /\ submissionMethod = "paste" \/ s_code # <<>>
          /\ \E lang \in {"python"} \ {s_language} : s_language' = lang
          /\ UNCHANGED <<s_code, s_title, githubRepo, githubPath, submissionMethod>>
       \/ /\ submissionMethod = "github"
          /\ \E repo \in {"", "octocat/Hello-World"} \ {githubRepo} : githubRepo' = repo
          /\ UNCHANGED <<s_code, s_title, s_language, githubPath, submissionMethod>>
       \/ /\ submissionMethod = "github"
          /\ \E path \in {"", "src/main.js"} \ {githubPath} : githubPath' = path
          /\ UNCHANGED <<s_code, s_title, s_language, githubRepo, submissionMethod>>
       \/ /\ \E method \in {"paste", "file", "github"} \ {submissionMethod} : submissionMethod' = method
          /\ UNCHANGED <<s_code, s_title, s_language, githubRepo, githubPath>>
    /\ s_event' = [kind |-> "edit", sent |-> FALSE, resp |-> "none"]
    /\ UNCHANGED <<s_pc, s_user, isSubmitting, uploadProgress, s_error, success,
                   s_inflight, s_redirect>>
    /\ UNCHANGED outsideSubmit

\* The user changes one input of the rendered form (the inputs stay enabled
\* while a handler is in flight).
EditForm == FormRendered /\ EditFields

\* handleGithubImport, up to its await.
HandleGithubImport ==
    /\ IF githubRepo = "" \/ githubPath = ""
       THEN /\ s_error' = "Please provide both repository and file path"
            /\ UNCHANGED <<isSubmitting, s_inflight>>
       ELSE /\ isSubmitting' = TRUE
            /\ s_error' = ""
            /\ s_inflight' = Append(s_inflight, "import")
    /\ s_event' = [kind |-> "import", sent |-> FALSE, resp |-> "none"]
    /\ UNCHANGED <<s_pc, s_user, s_code, s_title, s_language, githubRepo,
                   githubPath, submissionMethod, uploadProgress, success, s_redirect>>
    /\ UNCHANGED outsideSubmit

\* A click on "Import from GitHub", rendered for the github method and
\* disabled={isSubmitting || !githubRepo || !githubPath}.
ClickImport ==
    /\ FormRendered
    /\ submissionMethod = "github"
    /\ Len(s_inflight) < MaxInflight
    /\ ~(isSubmitting \/ githubRepo = "" \/ githubPath = "")
    /\ HandleGithubImport

\* The title handleGithubImport derives from the path: its last segment
\* without the extension, or "GitHub Import".
ImportTitle(path) ==
    IF path = "src/main.js" THEN <<"m", "a", "i", "n">>
    ELSE <<"G", "i", "t", "H", "u", "b", " ", "I", "m", "p", "o", "r", "t">>

\* The timeout of handleGithubImport resolves: the mock content and the
\* title are set, the method goes back to paste, and finally isSubmitting
\* is false.
ImportSettle ==
    /\ \E k \in 1..Len(s_inflight) :
          /\ s_inflight[k] = "import"
          /\ s_inflight' = RemoveAt(s_inflight, k)
    /\ s_code' = <<"/", "/">>
    /\ s_title' = ImportTitle(githubPath)
    /\ submissionMethod' = "paste"
    /\ isSubmitting' = FALSE
    /\ s_event' = [kind |-> "importSettled", sent |-> FALSE, resp |-> "none"]
    /\ UNCHANGED <<s_pc, s_user, s_language, githubRepo, githubPath,
                   uploadProgress, s_error, success, s_redirect>>
    /\ UNCHANGED outsideSubmit

\* handleSubmit without its test of the fields.
HandleSubmit_NoFieldGuard ==
    /\ IF ~Truthy(OptGet(s_user, "id"))
       THEN /\ s_error' = "Please log in to submit code for review"
            /\ s_event' = [kind |-> "submit", sent |-> FALSE, resp |-> "none"]
            /\ UNCHANGED <<isSubmitting, uploadProgress, s_inflight>>
       ELSE /\ isSubmitting' = TRUE
            /\ s_error' = ""
            /\ uploadProgress' = 30
            /\ s_inflight' = Append(s_inflight, "analyze")
            /\ s_event' = [kind |-> "submit", sent |-> TRUE, resp |-> "none"]
    /\ UNCHANGED <<s_pc, s_user, s_code, s_title, s_language, githubRepo,
                   githubPath, submissionMethod, success, s_redirect>>
    /\ UNCHANGED outsideSubmit

\* handleSubmit, up to its await: the two guards, then setIsSubmitting(true),
\* setError(""), setUploadProgress(0) and (30), and the POST to /api/analyze.
HandleSubmit ==
    /\ IF ~Truthy(OptGet(s_user, "id"))
       THEN /\ s_error' = "Please log in to submit code for review"
            /\ s_event' = [kind |-> "submit", sent |-> FALSE, resp |-> "none"]
            /\ UNCHANGED <<isSubmitting, uploadProgress, s_inflight>>
       ELSE IF Trim(s_code) = <<>> \/ Trim(s_title) = <<>> \/ s_language = ""
       THEN /\ s_error' = "Please fill in all required fields"
            /\ s_event' = [kind |-> "submit", sent |-> FALSE, resp |-> "none"]
            /\ UNCHANGED <<isSubmitting, uploadProgress, s_inflight>>
       ELSE /\ isSubmitting' = TRUE
            /\ s_error' = ""
            /\ uploadProgress' = 30
            /\ s_inflight' = Append(s_inflight, "analyze")
            /\ s_event' = [kind |-> "submit", sent |-> TRUE, resp |-> "none"]
    /\ UNCHANGED <<s_pc, s_user, s_code, s_title, s_language, githubRepo,
                   githubPath, submissionMethod, success, s_redirect>>
    /\ UNCHANGED outsideSubmit

\* The submit button with isSubmitting left out of its disabled attribute.
ClickSubmit_WhileSubmitting ==
    /\ FormRendered
    /\ Len(s_inflight) < MaxInflight
    /\ ~(Trim(s_code) = <<>> \/ Trim(s_title) = <<>> \/ s_language = "")
    /\ HandleSubmit

\* A click on "Submit for Review",
\* disabled={isSubmitting || !code.trim() || !title.trim() || !language}.
ClickSubmit ==
    /\ FormRendered
    /\ Len(s_inflight) < MaxInflight
    /\ ~(isSubmitting \/ Trim(s_code) = <<>> \/ Trim(s_title) = <<>> \/ s_language = "")
    /\ HandleSubmit

\* A submit event reaches handleSubmit whatever the form holds and whether
\* or not a session was found: the handler on every input.
SubmitEvent ==
    /\ s_pc # "checking"
    /\ ~success
    /\ Len(s_inflight) < MaxInflight
    /\ HandleSubmit

\* The fetch of handleSubmit settles: the rest of the try block, the catch
\* and the finally.
AnalyzeSettle ==
    /\ \E k \in 1..Len(s_inflight) :
          /\ s_inflight[k] = "analyze"
          /\ s_inflight' = RemoveAt(s_inflight, k)
    /\ \E resp \in AnalyzeResponses :
          LET r == TrySubmit(resp)
          IN  /\ IF r.threw
                 THEN /\ s_error' = r.message
                      /\ uploadProgress' = 0
                      /\ UNCHANGED <<success, s_redirect>>
                 ELSE /\ success' = TRUE
                      /\ uploadProgress' = 100
                      /\ s_redirect' = "scheduled"
                      /\ UNCHANGED s_error
              /\ s_event' = [kind |-> "settled", sent |-> FALSE, resp |-> resp]
    /\ isSubmitting' = FALSE
    /\ UNCHANGED <<s_pc, s_user, s_code, s_title, s_language, githubRepo,
                   githubPath, submissionMethod>>
    /\ UNCHANGED outsideSubmit

\* The timeout set on success fires:
\* router.push(`/dashboard/review/${result.actual_review_id}`), which throws
\* instead when result is null.
RedirectFires ==
    /\ s_redirect = "scheduled"
    /\ s_redirect' = IF s_event.resp = "ok_null" THEN "threw" ELSE "pushed"
    /\ UNCHANGED <<s_pc, s_user, s_code, s_title, s_language, githubRepo,
                   githubPath, submissionMethod, isSubmitting, uploadProgress,
                   s_error, success, s_inflight, s_event>>
    /\ UNCHANGED outsideSubmit

\* The page as the user drives it.
NextSubmit ==
    \/ CheckSession
    \/ EditForm
    \/ ClickImport
    \/ ImportSettle
    \/ ClickSubmit
    \/ AnalyzeSettle
    \/ RedirectFires
SpecSubmit == Init /\ [][NextSubmit]_vars

\* handleSubmit on every input.
NextHandleSubmit == CheckSession \/ EditFields \/ SubmitEvent \/ AnalyzeSettle
SpecHandleSubmit == Init /\ [][NextHandleSubmit]_vars

(***************************************************************************)
(* DashboardPage (app/dashboard/history/page.tsx, second component):       *)
(* fetchStats. A score is absent or an integer in 0..10; averageScore is   *)
(* kept in tenths, which is what toFixed(1) leaves.                        *)
(***************************************************************************)
StatsRows ==
    [status : Statuses \ {"in_progress"}, score : {JNull, JNum(0), JNum(7), JNum(10)}]

RECURSIVE SeqsUpTo(_, _)
SeqsUpTo(S, n) ==
    IF n = 0 THEN {<<>>}
    ELSE LET shorter == SeqsUpTo(S, n - 1)
         IN  shorter \cup {Append(q, x) : q \in {r \in shorter : Len(r) = n - 1}, x \in S}

\* reviews.filter(keep).length, keep given as the set of rows kept
CountIn(reviews, kept) == Cardinality({k \in 1..Len(reviews) : reviews[k] \in kept})

\* reviews.filter(r => typeof r.score === "number").reduce((sum, r) => sum + r.score, 0)
RECURSIVE SumScores(_)
SumScores(reviews) ==
    IF reviews = <<>> THEN 0
    ELSE (IF Head(reviews).score.t = "number" THEN Head(reviews).score.n ELSE 0)
         + SumScores(Tail(reviews))

\* Number((sum / divisor).toFixed(1)), in tenths: the nearest tenth, the
\* larger one on a tie.
ToFixed1(sum, divisor) == (20 * sum + divisor) \div (2 * divisor)

\* The stats object fetchStats builds from the rows.
BuildStats(reviews) ==
    LET completedReviews == CountIn(reviews, {r \in StatsRows : r.status = "completed"})
        pendingReviews == CountIn(reviews, {r \in StatsRows : r.status = "pending"})
    IN  [totalReviews |-> Len(reviews),
         pendingReviews |-> pendingReviews,
         completedReviews |-> completedReviews,
         averageScore |->
             ToFixed1(SumScores(reviews),
                      IF completedReviews # 0 THEN completedReviews ELSE 1),
         improvementRate |-> 12]

\* The effect on [user] runs fetchStats: the reviews query is sent.
FetchStats ==
    /\ st_pc = "idle"
    /\ st_pc' = "query"
    /\ UNCHANGED <<st_reviews, stats>>
    /\ UNCHANGED outsideStats

\* The query settles: with an error the stats stay as they were, else they
\* are built from the rows.
FetchStatsSettle ==
    /\ st_pc = "query"
    /\ \/ /\ st_pc' = "error"
          /\ UNCHANGED <<st_reviews, stats>>
       \/ /\ \E reviews \in SeqsUpTo(StatsRows, MaxReviews) :
                /\ st_reviews' = reviews
                /\ stats' = BuildStats(reviews)
          /\ st_pc' = "done"
    /\ UNCHANGED outsideStats

NextStats == FetchStats \/ FetchStatsSettle
SpecStats == Init /\ [][NextStats]_vars

(***************************************************************************)
(* Properties of the aggregation, checked under SpecAggregate, where the   *)
(* review held is the one built from the response that settled last.       *)
(***************************************************************************)
View == ViewDetail(review, loading, error)

\* The field f of the payload of a body, as the hook decodes it.
PayloadField(body, f) == OptGet(ParseResults(body).value, f)

\* C1: the status of the aggregated review is the status of the root review
\* record of the response, whatever the linked rows and the payload hold
\* (a payload with a status of its own included).
C1_StatusVerbatim ==
    review # JNull => Get(review, "status") = Get(response.body, "status")

C1_Witness ==
    /\ review # JNull
    /\ Get(response.body, "status") = JStr("completed")
    /\ PayloadField(response.body, "status") = JStr("failed")
    /\ Get(response.body, "ai_analysis") = LinkedAnalysis

\* C2: with a linked AiAnalysis row and a different analysis in the payload,
\* the aggregated ai_analysis is the linked row.
C2_LinkedAnalysisWins ==
    (review # JNull /\ Get(response.body, "ai_analysis") # JNull)
        => Get(review, "ai_analysis") = Get(response.body, "ai_analysis")

C2_Witness ==
    /\ review # JNull
    /\ Get(response.body, "ai_analysis") = LinkedAnalysis
    /\ PayloadField(response.body, "analysis") = PayloadAnalysis
    /\ PayloadAnalysis # LinkedAnalysis

\* The results of the body are a string JSON.parse rejects.
UndecodableResults(body) ==
    LET results == OptGet(Get(body, "code_data"), "results")
    IN  results.t = "string" /\ ~JSONParse(results.s).ok

GotReview == response.ok /\ response.body # JNull

\* C3 as stated: with undecodable results the aggregation succeeds with
\* ai_analysis and metrics unresolved and issues empty.
C3_Original ==
    (GotReview /\ UndecodableResults(response.body)) =>
        /\ review # JNull
        /\ error = JNull
        /\ Get(review, "ai_analysis") = JUndef
        /\ Get(review, "metrics") = JUndef
        /\ Get(review, "detailed_issues") = JArr(<<>>)

\* C3 amended: with undecodable results the aggregation succeeds, and each
\* group is its linked row when there is one, else unresolved (issues: empty).
C3_UndecodableAbsorbed ==
    (GotReview /\ UndecodableResults(response.body)) =>
        LET body == response.body
            linkedOr(f, none) == IF Get(body, f) # JNull THEN Get(body, f) ELSE none
        IN  /\ review # JNull
            /\ error = JNull
            /\ Get(review, "ai_analysis") = linkedOr("ai_analysis", JUndef)
            /\ Get(review, "metrics") = linkedOr("metrics", JUndef)
            /\ Get(review, "detailed_issues") = linkedOr("detailed_issues", JArr(<<>>))

C3_Witness ==
    /\ GotReview
    /\ UndecodableResults(response.body)
    /\ OptGet(Get(response.body, "code_data"), "results") = JStr(TextTruncated)
    /\ Get(response.body, "metrics") = LinkedMetrics
    /\ Get(response.body, "ai_analysis") = JNull
    /\ Get(review, "ai_analysis") = JUndef

\* C6: the value of a group depends on its own two sources only: changing
\* the linked rows of the other groups, or the payload in a way that keeps
\* this group's sub-field, leaves it as it is. With linked metrics, no linked
\* analysis and a payload holding only analysis, metrics is the linked row
\* and ai_analysis the payload's.
C6_GroupsIndependent ==
    review # JNull =>
        LET body == response.body
            Agg(b, f) == Get(FormatReview(b).value, f)
        IN  /\ \A ai \in LinkedAnalysisValues, iss \in LinkedIssuesValues,
                  cd \in CodeDataValues :
                  LET other == [body EXCEPT !.ai_analysis = ai,
                                            !.detailed_issues = iss, !.code_data = cd]
                  IN  PayloadField(other, "metrics") = PayloadField(body, "metrics")
                        => Agg(other, "metrics") = Get(review, "metrics")
            /\ \A me \in LinkedMetricsValues, iss \in LinkedIssuesValues,
                  cd \in CodeDataValues :
                  LET other == [body EXCEPT !.metrics = me,
                                            !.detailed_issues = iss, !.code_data = cd]
                  IN  PayloadField(other, "analysis") = PayloadField(body, "analysis")
                        => Agg(other, "ai_analysis") = Get(review, "ai_analysis")
            /\ \A ai \in LinkedAnalysisValues, me \in LinkedMetricsValues,
                  cd \in CodeDataValues :
                  LET other == [body EXCEPT !.ai_analysis = ai,
                                            !.metrics = me, !.code_data = cd]
                  IN  PayloadField(other, "issues") = PayloadField(body, "issues")
                        => Agg(other, "detailed_issues") = Get(review, "detailed_issues")
            /\ (/\ Get(body, "metrics") = LinkedMetrics
                /\ Get(body, "ai_analysis") = JNull
                /\ PayloadField(body, "analysis") = PayloadAnalysis
                /\ PayloadField(body, "metrics") = JUndef)
                  => /\ Get(review, "metrics") = LinkedMetrics
                     /\ Get(review, "ai_analysis") = PayloadAnalysis

C6_Witness ==
    /\ review # JNull
    /\ Get(response.body, "status") = JStr("completed")
    /\ Get(response.body, "score") = JNum(8)
    /\ Get(response.body, "metrics") = LinkedMetrics
    /\ Get(response.body, "ai_analysis") = JNull
    /\ OptGet(Get(response.body, "code_data"), "results") = JStr(TextAnalysisOnly)
    /\ Get(review, "ai_analysis") = PayloadAnalysis

\* C7: a pending review with a linked AiAnalysis row keeps the row in the
\* aggregated result, and the page shows the in-progress card and neither
\* the score nor the analysis section.
C7_PendingHidesAnalysis ==
    (/\ review # JNull
     /\ ~loading
     /\ Get(response.body, "status") = JStr("pending")
     /\ Get(response.body, "ai_analysis") # JNull)
        => /\ Get(review, "ai_analysis") = Get(response.body, "ai_analysis")
           /\ View.screen = "review"
           /\ "pending_card" \in View.sections
           /\ View.sections \cap {"score_overview", "ai_analysis", "quick_score"} = {}

C7_Witness ==
    /\ review # JNull
    /\ ~loading
    /\ Get(review, "status") = JStr("pending")
    /\ Get(review, "ai_analysis") = LinkedAnalysis
    /\ Get(review, "score") = JNum(8)
    /\ Truthy(Get(review, "detailed_issues"))
    /\ "pending_card" \in View.sections

\* C11: the code of the aggregated review is the code of the code_data row
\* when the review has one, and the empty string when it has none; a review
\* without a code_data row is aggregated all the same, with no error.
C11_CodeFromSubmission ==
    GotReview =>
        /\ review # JNull
        /\ error = JNull
        /\ Get(review, "code") =
              IF Get(response.body, "code_data") = JNull THEN JStr("")
              ELSE Get(Get(response.body, "code_data"), "code")

C11_Witness ==
    /\ GotReview
    /\ ~loading
    /\ Get(response.body, "code_data") = JNull
    /\ Get(response.body, "ai_analysis") = LinkedAnalysis
    /\ Get(review, "code") = JStr("")
    /\ Get(review, "ai_analysis") = LinkedAnalysis
    /\ View.screen = "review"

\* The descriptive columns of the reviews row, by their names in the body.
DescriptiveFields ==
    {"title", "description", "language", "review_type", "score", "created_at",
     "completed_at", "lines_of_code", "issues", "suggestions", "improvement_rate",
     "github_repo", "github_path"}

\* C13: every descriptive field of the aggregated review has the value the
\* reviews row of the response has, null, zero and empty values included,
\* whatever the linked rows hold and whatever keys the payload carries.
C13_DescriptiveVerbatim ==
    GotReview =>
        \A f \in DescriptiveFields : Get(review, f) = Get(response.body, f)

C13_Witness ==
    /\ GotReview
    /\ OptGet(Get(response.body, "code_data"), "results") = PayloadOverReview
    /\ Get(response.body, "detailed_issues") = JNull
    /\ Get(review, "detailed_issues") = JArr(<<PayloadIssue>>)
    /\ Get(review, "issues") = JNum(0)
    /\ Get(review, "score") = JNum(0)
    /\ Get(review, "title") = JStr("")
    /\ Get(review, "description") = JNull
    /\ Get(review, "completed_at") = DescriptiveBare.completed_at

\* C14: a review in status in_progress is rendered as the same review in
\* status pending is: same status icon, same badge colour, the in-progress
\* cards, and neither the score nor the analysis section.
C14_InProgressAsPending ==
    (View.screen = "review" /\ Get(review, "status") = JStr("in_progress")) =>
        /\ Rendering(review) = Rendering([review EXCEPT !.status = JStr("pending")])
        /\ {"pending_card", "pending_stats"} \subseteq View.sections
        /\ View.sections \cap {"score_overview", "ai_analysis", "quick_score"} = {}

\* The review has a score (0 included) and a resolved ai_analysis.
SectionsEligible(rev) ==
    /\ Get(rev, "score") \notin {JNull, JUndef}
    /\ Get(rev, "ai_analysis") \notin {JNull, JUndef}

\* C15: for a completed review on the review screen, the score section or
\* the analysis section is shown only when the review has a score and a
\* resolved ai_analysis; otherwise neither is shown, the shell (header,
\* code) is, and no error is set.
C15_CompletedSections ==
    (View.screen = "review" /\ Get(review, "status") = JStr("completed")) =>
        /\ {"header", "code"} \subseteq View.sections
        /\ error = JNull
        /\ ~SectionsEligible(review) =>
              View.sections \cap {"score_overview", "ai_analysis"} = {}

\* C17: parsing the results of the response yields no payload, with no
\* error, when they are absent; the same value when they are already
\* structured; the decoded value when they are text that decodes; and the
\* code_data of the response is in the aggregated review as it was received.
C17_ParsePure ==
    GotReview =>
        LET body == response.body
            results == OptGet(Get(body, "code_data"), "results")
            parsed == ParseResults(body)
        IN  /\ results \in {JNull, JUndef} =>
                  /\ parsed = [threw |-> FALSE, value |-> JUndef]
                  /\ review # JNull
                  /\ error = JNull
            /\ results.t = "object" => parsed = [threw |-> FALSE, value |-> results]
            /\ (results.t = "string" /\ results.s \in DecodableTexts) =>
                  parsed = [threw |-> FALSE, value |-> JSONParse(results.s).value]
            /\ Get(body, "ai_analysis") = JNull =>
                  Get(review, "ai_analysis") = Or(OptGet(parsed.value, "analysis"), JUndef)
            /\ Get(review, "code_data") = Get(body, "code_data")

C17_Witness ==
    /\ GotReview
    /\ OptGet(Get(response.body, "code_data"), "results") = PayloadAll
    /\ Get(response.body, "ai_analysis") = JNull
    /\ Get(review, "ai_analysis") = PayloadAnalysis
    /\ Get(review, "code_data") = CodeData(PayloadAll)

\* The join holds at least one review_issues row for the review.
HasLinkedIssues(body) ==
    LET linked == Get(body, "detailed_issues")
    IN  linked.t = "array" /\ Len(linked.items) > 0

\* C12: the issues of the aggregated review are the linked review_issues
\* rows when there is at least one, else the issues of the decoded payload
\* when it has them, else the empty list; they are never undefined.
C12_IssuesResolution ==
    GotReview =>
        /\ Get(review, "detailed_issues") # JUndef
        /\ Get(review, "detailed_issues") =
              IF HasLinkedIssues(response.body)
              THEN Get(response.body, "detailed_issues")
              ELSE IF PayloadField(response.body, "issues") # JUndef
                   THEN PayloadField(response.body, "issues")
                   ELSE JArr(<<>>)

(***************************************************************************)
(* Properties of the detail page across route changes, checked under       *)
(* SpecDetail.                                                             *)
(***************************************************************************)
\* C4: a review of another user is answered Forbidden, and whatever the body
\* of that answer holds, none of it reaches the page: the hook never holds a
\* review of another user, a Forbidden answer leaves an error set and the
\* page off the review screen, and the review held (none, on a first visit)
\* is not the one that was refused.
C4_ForbiddenNoLeak ==
    /\ review # JNull => Get(review, "user_id") = JStr(CallerUserId)
    /\ \A f \in 1..Len(inflight) :
          (inflight[f].pc = "fetch" /\ inflight[f].id \in ForeignIds) =>
              \A resp \in BackendResponses(inflight[f].id, inflight[f].user, "few") :
                  resp.status = 403
    /\ response.status = 403 =>
          /\ error # JNull
          /\ View.screen # "review"
          /\ review # JNull => Get(review, "id") # JStr(response.url)

C4_Witness ==
    /\ response.status = 403
    /\ Get(response.body, "user_id") = JStr(OtherUserId)
    /\ Get(response.body, "status") = JStr("completed")
    /\ review = JNull
    /\ ~loading
    /\ View.screen = "error"

\* A failed review is on the review screen.
FailedShown == View.screen = "review" /\ Get(review, "status") = JStr("failed")

\* C16: while a failed review is held, a fetch starts only as the effect of
\* a route id just set (never as a retry), and once the failed review is on
\* the screen its failed card offers one action, the navigation to the
\* submit page, and no button of the page has a handler other than that
\* navigation or going back.
C16_FailedTerminal ==
    /\ [](FailedShown =>
            /\ {b.onClick : b \in {c \in Buttons(review) : c.card = "failed_card"}}
                  = {PushSubmit}
            /\ \A b \in Buttons(review) : b.onClick \in {"none", "router.back", PushSubmit})
    /\ [][Get(review, "status") = JStr("failed") =>
            (Len(inflight') > Len(inflight) => effectDue)]_vars

C16_Witness ==
    /\ FailedShown
    /\ Get(review, "id") = JStr(id)
    /\ "failed_card" \in View.sections
    /\ ~effectDue
    /\ inflight = <<>>

\* C21: a fetch for an id the route has left stores nothing: once every
\* fetch has settled, a review held without error is the review of the
\* current id, and while the fetch for the current id is pending the page
\* is loading.
C21_AbandonedNotStored ==
    (id # "" /\ ~effectDue) =>
        /\ (inflight = <<>> /\ review # JNull /\ error = JNull) =>
              Get(review, "id") = JStr(id)
        /\ (\E k \in 1..Len(inflight) : inflight[k].id = id) => loading

\* C24: after any sequence of fetches, whenever loading is false exactly one
\* of these holds: a review is held and there is no error, or there is an
\* error and no review is held.
C24_ReviewXorError ==
    ~loading =>
        \/ review # JNull /\ error = JNull
        \/ error # JNull /\ review = JNull

\* The message the page shows once a call that received resp has settled.
MessageAfter(resp) ==
    ViewDetail(JNull, FALSE, IF TryFetchReview(resp).threw THEN CatchError ELSE JNull).message

\* C5: an id no review has is answered NotFound, no review is displayed, and
\* what the page is left with differs from what Forbidden leaves it with.
C5_NotFoundDistinct ==
    (response.kind = "http" /\ response.url \in MissingIds /\ ~loading) =>
        /\ View.screen = "error"
        /\ \A rid \in ForeignIds :
              View.message # MessageAfter(Http(rid, CallerUserId, 403, JNull))

(***************************************************************************)
(* Properties of the routing by authentication, checked under SpecAuth.    *)
(***************************************************************************)
\* C18: on a dashboard route the layout shows its page content only while
\* a user is set, and once the layout is mounted and the auth state has
\* finished loading with no user, /login has been pushed.
C18_DashboardGuard ==
    route \in DashboardRoutes =>
        /\ Screen = "children" => Truthy(a_user)
        /\ (~a_loading /\ l_mounted /\ ~Truthy(a_user)) =>
              /\ pendingNav = "/login"
              /\ Screen = "null"

C18_Witness ==
    /\ route = "/dashboard/history"
    /\ ~a_loading
    /\ l_mounted
    /\ a_user = JNull
    /\ pendingNav = "/login"
    /\ Screen = "null"

\* C19: with a user set and the auth state loaded, the landing page and the
\* login page have pushed /dashboard.
C19_AuthenticatedRedirect ==
    (route \in {"/", "/login"} /\ ~a_loading /\ Truthy(a_user)) =>
        pendingNav = "/dashboard"

(***************************************************************************)
(* Properties of the history list, checked under SpecHistory.              *)
(***************************************************************************)
\* Two characters are the same letter, whatever their case.
SameLetter(c, d) == c = d \/ {c, d} \in {{"a", "A"}, {"b", "B"}}

\* q occurs in chars as a run of the same letters.
ContainsIgnoringCase(chars, q) ==
    \E off \in 0..(Len(chars) - Len(q)) :
        \A k \in 1..Len(q) : SameLetter(chars[off + k], q[k])

\* The row has a language, title or code in which the query occurs.
RowMatches(row, q) ==
    \E f \in {"language", "title", "code"} :
        row[f] # JNull /\ ContainsIgnoringCase(row[f].chars, q)

Range(seq) == {seq[i] : i \in 1..Len(seq)}

\* C8: the rows listed are exactly the fetched rows whose language, title or
\* code contains the query, case ignored (all rows for the empty query); a
\* missing field matches nothing and breaks nothing.
C8_SearchFilter ==
    /\ Range(filtered) =
          {row \in Range(history) : searchQuery = <<>> \/ RowMatches(row, searchQuery)}
    /\ Len(filtered) = Cardinality(Range(filtered))

C8_Witness ==
    /\ searchQuery = <<"A", "B">>
    /\ Len(history) = 3
    /\ Len(filtered) = 2
    /\ \E i \in 1..Len(filtered) : filtered[i].language = Text(<<"a", "B">>)
    /\ \E i \in 1..Len(history) :
          history[i].language = JNull /\ history[i] \notin Range(filtered)

\* C25: once the user lookup and any history request have settled, whether
\* they succeeded or failed, loading is false; and no history request is
\* pending before a user id is known.
C25_HistoryLeavesLoading ==
    /\ h_pc \in {"nouser", "done"} => ~h_loading
    /\ h_pc = "fetch" => h_userId # ""

\* C20: once the history request has settled, the page is not loading and
\* its history is the rows of the response when that was a 200 with an
\* array (the empty one included), and the empty list after a rejected
\* fetch, a non-2xx status, or a body that is not JSON or not an array.
C20_HistoryAlwaysSequence ==
    h_pc = "done" =>
        /\ ~h_loading
        /\ history = IF h_data.t = "array" THEN h_data.items ELSE <<>>
        /\ history \in UNION {[1..n -> RowPool] : n \in 0..MaxRows}

C20_Witness ==
    /\ h_pc = "done"
    /\ h_data = ErrorBody
    /\ history = <<>>
    /\ filtered = <<>>
    /\ ~h_loading

RECURSIVE Reverse(_)
Reverse(seq) == IF seq = <<>> THEN <<>> ELSE Reverse(Tail(seq)) \o <<Head(seq)>>

NewestFirst == Filtered(history, searchQuery, languageFilter, "newest")
OldestFirst == Filtered(history, searchQuery, languageFilter, "oldest")

C10_IdempotentNoMutation ==
    /\ \A sb \in {"newest", "oldest"} :
          LET once == Filtered(history, searchQuery, languageFilter, sb)
          IN  Filtered(once, searchQuery, languageFilter, sb) = once
    /\ Render(filtered, searchQuery).filtered = filtered
    /\ h_data.t = "array" => history = h_data.items

C10_Witness ==
    /\ h_data.t = "array"
    /\ Len(history) = 3
    /\ Len(filtered) = 2
    /\ searchQuery # <<>>
    /\ Sort(history, sortBy) # history
    /\ \E i, j \in 1..Len(history) :
          i # j /\ DateGetTime(history[i].created_at) = DateGetTime(history[j].created_at)

(***************************************************************************)
(* Properties of the resolution of a field group, checked under            *)
(* SpecResolve.                                                            *)
(***************************************************************************)
\* a ?? b
Nullish(a, b) == IF a.t \in {"null", "undefined"} THEN b ELSE a

Unresolved(group) == IF group = "issues" THEN JArr(<<>>) ELSE JUndef

\* C22: for each of the three groups and every pair of a primary and a
\* fallback value, falsy non-null primaries included, the resolved value is
\* primary ?? fallback ?? unresolved.
C22_NullishResolution ==
    fieldGroup.group # "" =>
        fieldGroup.resolved =
            Nullish(Nullish(fieldGroup.primary, fieldGroup.fallback),
                    Unresolved(fieldGroup.group))

\* The linked issues the backend returns: none, or a list.
LinkedIssuesShape(v) == v = JNull \/ v.t = "array"

\* C29: the aggregated issues value is always a sequence, possibly empty,
\* whatever the payload holds, for linked issues that are absent or a list.
C29_IssuesAlwaysSequence ==
    (fieldGroup.group = "issues" /\ LinkedIssuesShape(fieldGroup.primary)) =>
        fieldGroup.resolved.t = "array"

(***************************************************************************)
(* Properties of the reviews row, checked under SpecDb.                    *)
(***************************************************************************)
\* C23: after any inserts and updates of a reviews row under the
\* update_completed_at trigger, completed_at is set exactly when status is
\* completed, so the detail page shows "Completed in" exactly for a
\* completed review.
C23_CompletedAtIffCompleted ==
    reviewsRow # NoRow =>
        /\ (reviewsRow.completed_at # JNull) <=> (reviewsRow.status = "completed")
        /\ ShowsCompletedIn(reviewsRow) <=> (reviewsRow.status = "completed")

(***************************************************************************)
(* Properties of handleSubmit on every input, checked under                *)
(* SpecHandleSubmit.                                                       *)
(***************************************************************************)
\* What handleSubmit refuses: no user id, code or title empty or blank, no
\* language.
Refused ==
    \/ ~Truthy(OptGet(s_user, "id"))
    \/ Trim(s_code) = <<>>
    \/ Trim(s_title) = <<>>
    \/ s_language = ""

\* C26: handleSubmit sends no analyze request when there is no user id, when
\* code or title is empty or blank, or when no language is selected; it
\* then sets an error message and leaves isSubmitting, uploadProgress and
\* success as they were.
C26_GuardedSubmit ==
    [][(s_event'.kind = "submit" /\ Refused) =>
          /\ ~s_event'.sent
          /\ s_inflight' = s_inflight
          /\ s_error' # ""
          /\ isSubmitting' = isSubmitting
          /\ uploadProgress' = uploadProgress
          /\ success' = success]_vars

\* handleSubmit has refused a blank title from a signed-in user.
C26_Witness ==
    /\ s_event.kind = "submit"
    /\ ~s_event.sent
    /\ s_user = SessionUser
    /\ s_code = <<"x">>
    /\ s_title = <<" ">>
    /\ s_language = "python"
    /\ s_error = "Please fill in all required fields"

(***************************************************************************)
(* Properties of the submit page as the user drives it, checked under      *)
(* SpecSubmit.                                                             *)
(***************************************************************************)
\* The answers that are ok with a body that decodes.
OkDecoded == {"ok_result", "ok_null"}

\* C27: after a handleSubmit request settles isSubmitting is false; success
\* is true, or uploadProgress 100, only after an ok response whose body was
\* decoded; on every other answer success is false, uploadProgress is 0, an
\* error message is set and no redirect is scheduled.
C27_SettledOutcome ==
    s_event.kind = "settled" =>
        /\ ~isSubmitting
        /\ success => s_event.resp \in OkDecoded
        /\ uploadProgress = 100 => s_event.resp \in OkDecoded
        /\ s_event.resp \notin OkDecoded =>
              /\ ~success
              /\ uploadProgress = 0
              /\ s_error # ""
              /\ s_redirect = "none"

\* A submission was answered with an error response and has settled.
C27_Witness ==
    /\ s_event.kind = "settled"
    /\ s_event.resp = "fail_detail"
    /\ s_error = "detail"
    /\ uploadProgress = 0

\* C28: at most one operation of the submit page is in flight; while
\* isSubmitting is true no submission and no import is started; and
\* isSubmitting is true exactly while a submission or an import is in flight.
C28_OneOutstanding ==
    /\ [](Len(s_inflight) <= 1 /\ (isSubmitting <=> s_inflight # <<>>))
    /\ [][isSubmitting => Len(s_inflight') <= Len(s_inflight)]_vars

\* A submission is in flight while the import form is filled in.
C28_Witness ==
    /\ isSubmitting
    /\ s_inflight = <<"analyze">>
    /\ submissionMethod = "github"
    /\ githubRepo # ""
    /\ githubPath # ""

(***************************************************************************)
(* Properties of the dashboard statistics, checked under SpecStats.        *)
(***************************************************************************)
\* The completed reviews among the rows, in order.
CompletedOf(reviews) == SelectSeq(reviews, LAMBDA r : r.status = "completed")

\* The completed reviews that have a score.
ScoredCompletedOf(reviews) ==
    SelectSeq(reviews, LAMBDA r : r.status = "completed" /\ r.score.t = "number")

\* The mean of the scores of the completed reviews, in tenths; 0 when no
\* completed review has a score.
MeanCompleted(reviews) ==
    LET scored == ScoredCompletedOf(reviews)
    IN  IF scored = <<>> THEN 0 ELSE ToFixed1(SumScores(scored), Len(scored))

\* C30: averageScore is the mean of the scores of the completed reviews (0
\* when there is none) and lies in 0..10; the sum of the scores added up
\* never exceeds 10 times the divisor used.
C30_AverageScore ==
    st_pc = "done" =>
        /\ stats.averageScore = MeanCompleted(st_reviews)
        /\ stats.averageScore \in 0..100
        /\ SumScores(st_reviews) <=
              10 * (IF stats.completedReviews # 0 THEN stats.completedReviews ELSE 1)

=============================================================================
